---- MODULE Spec2Model ----
(***************************************************************************)
(* Model of the Ethernet manager (eth_manager.c): persistence of the       *)
(* interface configuration in NVS, the effective-configuration            *)
(* resolution, the apply path and the lifecycle of the singleton handle.   *)
(***************************************************************************)
EXTENDS Integers, Sequences, FiniteSets, TLC

(***************************************************************************)
(* Bounds of the model.                                                    *)
(***************************************************************************)
\* Number of distinct non-zero ip_info triples a caller may pass.
MaxHost == 1
\* Number of distinct non-empty dns_info arrays a caller may pass.
MaxDns == 1
\* Largest schema version a foreign build may have left in the store.
MaxVer == 2
\* Most events waiting in the event loop.
MaxEvq == 1

(***************************************************************************)
(* Program constants.                                                      *)
(***************************************************************************)
NVS_CFG_VER == 1
\* sizeof(esp_netif_ip_info_t) in 32-bit words: ip, netmask, gw.
IpInfoSize == 3
\* ESP_NETIF_DNS_MAX: MAIN, BACKUP, FALLBACK; one address word per slot.
ESP_NETIF_DNS_MAX == 3

Keys == {"version", "eth_static", "eth_disable", "eth_ip", "eth_dns"}

(***************************************************************************)
(* struct eth_cfg and its values.                                          *)
(***************************************************************************)
ZeroIp == [ip |-> 0, netmask |-> 0, gw |-> 0]
ZeroDns == [i \in 1..ESP_NETIF_DNS_MAX |-> 0]

\* memset(cfg, 0, sizeof(*cfg))
eth_cfg_init ==
    [is_default |-> FALSE, is_valid |-> FALSE, is_connected |-> FALSE,
     is_disabled |-> FALSE, is_static |-> FALSE,
     ip_info |-> ZeroIp, dns_info |-> ZeroDns]

\* The four assignments without the eth_cfg_init before them.
set_defaults_no_init(cfg) ==
    [cfg EXCEPT !.is_default = TRUE, !.is_valid = TRUE,
                !.is_static = FALSE, !.is_disabled = FALSE]

\* eth_cfg_init(cfg), then the four assignments: nothing of what cfg held
\* at entry is kept.
set_defaults(cfg) ==
    [eth_cfg_init EXCEPT !.is_default = TRUE, !.is_valid = TRUE,
                         !.is_static = FALSE, !.is_disabled = FALSE]

IpInfoOf(h) ==
    IF h = 0 THEN ZeroIp
    ELSE [ip |-> 3 * h - 2, netmask |-> 3 * h - 1, gw |-> 3 * h]

\* Slot 2 (index 1 in C) is left as the "any" address for odd d, and is
\* the only one set for even d > 0.
DnsOf(d) ==
    IF d = 0 THEN ZeroDns
    ELSE IF d % 2 = 1
         THEN [i \in 1..ESP_NETIF_DNS_MAX |-> IF i = 2 THEN 0 ELSE 10 * d + i]
         ELSE [i \in 1..ESP_NETIF_DNS_MAX |-> IF i = 2 THEN 10 * d + i ELSE 0]

IpInfos == {IpInfoOf(h) : h \in 0..MaxHost}
DnsInfos == {DnsOf(d) : d \in 0..MaxDns}

\* Configurations a caller hands to the manager.
Cfgs ==
    {[is_default |-> df, is_valid |-> TRUE, is_connected |-> FALSE,
      is_disabled |-> dis, is_static |-> st, ip_info |-> ipi, dns_info |-> dns] :
        df \in BOOLEAN, dis \in BOOLEAN, st \in BOOLEAN,
        ipi \in IpInfos, dns \in DnsInfos}

(***************************************************************************)
(* The NVS namespace "eth_manager": a partial function from key to value.  *)
(* u32 entries hold a number, blob entries a sequence of 32-bit words.     *)
(* nvs_set_* reaches the flash at the call, so a power loss keeps the      *)
(* entries written so far.                                                 *)
(***************************************************************************)
EmptyStore == [k \in {} |-> 0]

NvsSet(s, key, val) ==
    [k \in (DOMAIN s) \cup {key} |-> IF k = key THEN val ELSE s[k]]

BoolToU32(b) == IF b THEN 1 ELSE 0
U32ToBool(n) == n # 0

IpToBlob(ipi) == <<ipi.ip, ipi.netmask, ipi.gw>>
DnsToBlob(dns) == [i \in 1..ESP_NETIF_DNS_MAX |-> dns[i]]

\* nvs_get_blob into a zeroed buffer of `size` words: the first Len(blob)
\* words are overwritten.
BlobInto(blob, size) ==
    [i \in 1..size |-> IF i <= Len(blob) THEN blob[i] ELSE 0]

BlobToIp(blob) ==
    LET w == BlobInto(blob, IpInfoSize)
    IN [ip |-> w[1], netmask |-> w[2], gw |-> w[3]]

\* nvs_get_u32: the key must exist.
NvsGetErr(s, key) ==
    IF key \in DOMAIN s THEN "ESP_OK" ELSE "ESP_ERR_NVS_NOT_FOUND"

\* nvs_get_blob with *length = size: a longer entry is refused, a shorter
\* one is copied and reported through *length.
NvsGetBlobErr(s, key, size) ==
    IF key \notin DOMAIN s THEN "ESP_ERR_NVS_NOT_FOUND"
    ELSE IF Len(s[key]) > size THEN "ESP_ERR_NVS_INVALID_LENGTH"
    ELSE "ESP_OK"

(***************************************************************************)
(* Injected faults of the storage calls: the set F names the calls that    *)
(* fail in one invocation.                                                 *)
(***************************************************************************)
WritePoints == <<"set_version", "set_static", "set_disable", "set_ip", "set_dns">>
StorePoints ==
    {"open", "clear_open", "clear_erase", "clear_commit", "rollback_erase"}
        \cup {WritePoints[i] : i \in 1..5}
\* One storage call fails, and the nvs_erase_all of the error path may fail
\* after it.
StoreFaultSets ==
    {{}} \cup {{p} : p \in StorePoints}
         \cup {{p, "rollback_erase"} : p \in StorePoints \ {"open"}}

(***************************************************************************)
(* get_saved_config                                                        *)
(***************************************************************************)
\* A version test that is off by one.
VersionTooNew_off_by_one(v) == v > NVS_CFG_VER + 1

\* if (tmp > NVS_CFG_VER)
VersionTooNew(v) == v > NVS_CFG_VER

get_saved_config(s, F) ==
    LET c0 == eth_cfg_init
        c1 == [c0 EXCEPT !.is_static = U32ToBool(s["eth_static"])]
        c2 == [c1 EXCEPT !.is_disabled = U32ToBool(s["eth_disable"])]
        c3 == [c2 EXCEPT !.ip_info = BlobToIp(s["eth_ip"])]
        c4 == [c3 EXCEPT !.dns_info = BlobInto(s["eth_dns"], ESP_NETIF_DNS_MAX)]
    IN
    IF "open" \in F THEN [result |-> "ESP_FAIL", cfg |-> c0]
    ELSE IF NvsGetErr(s, "version") # "ESP_OK"
        THEN [result |-> NvsGetErr(s, "version"), cfg |-> c0]
    ELSE IF VersionTooNew(s["version"])
        THEN [result |-> "ESP_ERR_INVALID_VERSION", cfg |-> c0]
    ELSE IF NvsGetErr(s, "eth_static") # "ESP_OK"
        THEN [result |-> NvsGetErr(s, "eth_static"), cfg |-> c0]
    ELSE IF NvsGetErr(s, "eth_disable") # "ESP_OK"
        THEN [result |-> NvsGetErr(s, "eth_disable"), cfg |-> c1]
    ELSE IF NvsGetBlobErr(s, "eth_ip", IpInfoSize) # "ESP_OK"
        THEN [result |-> NvsGetBlobErr(s, "eth_ip", IpInfoSize), cfg |-> c2]
    ELSE IF Len(s["eth_ip"]) # IpInfoSize
        THEN [result |-> "ESP_ERR_NOT_FOUND", cfg |-> c3]
    ELSE IF NvsGetBlobErr(s, "eth_dns", ESP_NETIF_DNS_MAX) # "ESP_OK"
        THEN [result |-> NvsGetBlobErr(s, "eth_dns", ESP_NETIF_DNS_MAX), cfg |-> c3]
    ELSE IF Len(s["eth_dns"]) # ESP_NETIF_DNS_MAX
        THEN [result |-> "ESP_ERR_NOT_FOUND", cfg |-> c4]
    ELSE [result |-> "ESP_OK", cfg |-> c4]

(***************************************************************************)
(* clear_config                                                            *)
(***************************************************************************)
\* A clear_config that reports success and erases nothing.
clear_config_keep(s, F) == [result |-> "ESP_OK", store |-> s]

clear_config(s, F) ==
    IF "clear_open" \in F THEN [result |-> "ESP_FAIL", store |-> s]
    ELSE IF "clear_erase" \in F THEN [result |-> "ESP_FAIL", store |-> s]
    ELSE IF "clear_commit" \in F THEN [result |-> "ESP_FAIL", store |-> EmptyStore]
    ELSE [result |-> "ESP_OK", store |-> EmptyStore]

(***************************************************************************)
(* save_config: clear_config, then the five entries in order; the first    *)
(* nvs_set_* that fails ends the writing and the namespace is erased.      *)
(***************************************************************************)
\* The disable flag written from the wrong field.
WriteVals_wrong_flag(c) ==
    <<NVS_CFG_VER, BoolToU32(c.is_static), BoolToU32(c.is_static),
      IpToBlob(c.ip_info), DnsToBlob(c.dns_info)>>

\* The five entries in the order they are written.
WriteVals(c) ==
    <<NVS_CFG_VER, BoolToU32(c.is_static), BoolToU32(c.is_disabled),
      IpToBlob(c.ip_info), DnsToBlob(c.dns_info)>>
WriteKeys == <<"version", "eth_static", "eth_disable", "eth_ip", "eth_dns">>

RECURSIVE WriteFirst(_, _, _)
\* The store after the first n entries of c have been written.
WriteFirst(s, c, n) ==
    IF n = 0 THEN s
    ELSE NvsSet(WriteFirst(s, c, n - 1), WriteKeys[n], WriteVals(c)[n])

\* Number of nvs_set_* calls that succeed before the first one that fails.
WritesDone(F) ==
    IF \E i \in 1..5 : WritePoints[i] \in F
    THEN (CHOOSE i \in 1..5 : WritePoints[i] \in F
                               /\ \A j \in 1..(i - 1) : WritePoints[j] \notin F) - 1
    ELSE 5

\* The defaults written like any other configuration.
SkipsDefault_never(c) == FALSE

\* if (cfg->is_default): the factory defaults are not written.
SkipsDefault(c) == c.is_default

\* (void)nvs_erase_all(handle) on the error path.
rollback_erase(s, F) == IF "rollback_erase" \in F THEN s ELSE EmptyStore

save_config(s, c, F) ==
    LET cl == clear_config(s, F)
        n == WritesDone(F)
    IN
    IF "open" \in F THEN [result |-> "ESP_FAIL", store |-> s]
    ELSE IF cl.result # "ESP_OK"
        THEN [result |-> cl.result, store |-> rollback_erase(cl.store, F)]
    ELSE IF SkipsDefault(c) THEN [result |-> "ESP_OK", store |-> cl.store]
    ELSE IF n < 5
        THEN [result |-> "ESP_FAIL",
              store |-> rollback_erase(WriteFirst(cl.store, c, n), F)]
    ELSE [result |-> "ESP_OK", store |-> WriteFirst(cl.store, c, 5)]

\* The flash when power is lost inside a save_config(c) that meets no fault,
\* after k of its storage operations: none, the erase, the erase and the
\* first k - 1 entries.
save_cut(s, c, k) ==
    IF k = 0 THEN s
    ELSE IF SkipsDefault(c) THEN clear_config(s, {}).store
    ELSE WriteFirst(clear_config(s, {}).store, c, k - 1)

(***************************************************************************)
(* get_saved_or_default_config                                             *)
(***************************************************************************)
get_saved_or_default_config(s, F) ==
    LET ld == get_saved_config(s, F)
        c == IF ld.result # "ESP_OK" THEN set_defaults(ld.cfg) ELSE ld.cfg
    IN [result |-> "ESP_OK", cfg |-> [c EXCEPT !.is_valid = TRUE]]


(***************************************************************************)
(* State.                                                                  *)
(***************************************************************************)
VARIABLES
    store,       \* content of the NVS namespace
    handle,      \* the singleton: static struct eth_manager_handle_s *handle
    bits,        \* bits of the event group handle->eth_events
    eg_live,     \* event groups created and not deleted
    netif,       \* the esp_netif instance made by esp_netif_new
    eth,         \* the Ethernet driver behind eth_handle
    evq,         \* ETH_EVENT events posted and not yet dispatched
    registered,  \* eth_event_handler is registered with the event loop
    last         \* the last call: operation, inputs, result

vars == <<store, handle, bits, eg_live, netif, eth, evq, registered, last>>
volatile == <<handle, bits, eg_live, netif, eth, evq, registered>>

\* Pointer fields are TRUE when non-NULL.
NullHandle ==
    [allocated |-> FALSE, eth_netif |-> FALSE, eth_handle |-> FALSE,
     eth_events |-> FALSE]

\* A host name is known by its length; 0 is the name the stack starts with.
NoNetif ==
    [dhcpc |-> "INIT", ip_info |-> ZeroIp, dns_info |-> ZeroDns,
     hostname |-> 0]

\* `calls` lists the calls into the interface and the driver in the order
\* they were made, each with the code it returned.
CallIf(op, result, step, F, cfg, out, calls) ==
    [op |-> op, result |-> result, step |-> step, F |-> F, cfg |-> cfg,
     out |-> out, calls |-> calls]

Call(op, result, step, F, cfg, out) ==
    CallIf(op, result, step, F, cfg, out, <<>>)

InitVolatile ==
    /\ handle = NullHandle
    /\ bits = {}
    /\ eg_live = 0
    /\ netif = NoNetif
    /\ eth = [started |-> FALSE, link |-> FALSE]
    /\ evq = <<>>
    /\ registered = FALSE
    /\ last = Call("boot", "ESP_OK", "none", {}, eth_cfg_init, eth_cfg_init)

(***************************************************************************)
(* The Ethernet driver (esp_eth_start, esp_eth_stop): a second start or    *)
(* stop is refused, a transition posts its event to the event loop.        *)
(***************************************************************************)
DnsPoints == <<"set_dns_0", "set_dns_1", "set_dns_2">>
LifePoints ==
    {"calloc", "event_group", "netif_new", "attach", "register", "nvs_open",
     "dhcpc_stop", "set_ip_info", "dhcpc_start", "eth_start", "eth_stop"}
        \cup {DnsPoints[i] : i \in 1..ESP_NETIF_DNS_MAX}
\* No call fails, or one does.
LifeFaultSets == {{}} \cup {{p} : p \in LifePoints}
\* The calls made by set_eth_cfg.
ApplyPoints ==
    {"dhcpc_stop", "set_ip_info", "dhcpc_start", "eth_start", "eth_stop"}
        \cup {DnsPoints[i] : i \in 1..ESP_NETIF_DNS_MAX}
ApplyFaultSets == {{}} \cup {{p} : p \in ApplyPoints}

esp_eth_start(e, q, F) ==
    IF "eth_start" \in F THEN [result |-> "ESP_FAIL", eth |-> e, evq |-> q]
    ELSE IF e.started
        THEN [result |-> "ESP_ERR_INVALID_STATE", eth |-> e, evq |-> q]
    ELSE [result |-> "ESP_OK", eth |-> [e EXCEPT !.started = TRUE],
          evq |-> Append(q, "ETHERNET_EVENT_START")]

esp_eth_stop(e, q, F) ==
    IF "eth_stop" \in F THEN [result |-> "ESP_FAIL", eth |-> e, evq |-> q]
    ELSE IF ~e.started
        THEN [result |-> "ESP_ERR_INVALID_STATE", eth |-> e, evq |-> q]
    ELSE [result |-> "ESP_OK", eth |-> [started |-> FALSE, link |-> FALSE],
          evq |-> Append(q, "ETHERNET_EVENT_STOP")]

(***************************************************************************)
(* start_eth, stop_eth                                                     *)
(***************************************************************************)
NotInitialized(h) == ~h.allocated \/ ~h.eth_handle \/ ~h.eth_events

start_eth(h, b, e, q, F) ==
    IF NotInitialized(h)
        THEN [result |-> "ESP_ERR_INVALID_STATE", eth |-> e, evq |-> q]
    ELSE IF "BIT_ETH_START" \in b
        THEN [result |-> "ESP_OK", eth |-> e, evq |-> q]
    ELSE esp_eth_start(e, q, F)

\* The call start_eth makes into the driver, if it makes one.
start_eth_calls(h, b, e, q, F) ==
    IF NotInitialized(h) \/ "BIT_ETH_START" \in b THEN <<>>
    ELSE <<<<"esp_eth_start", esp_eth_start(e, q, F).result>>>>

stop_eth(h, b, e, q, F) ==
    IF NotInitialized(h)
        THEN [result |-> "ESP_ERR_INVALID_STATE", eth |-> e, evq |-> q]
    ELSE IF "BIT_ETH_START" \notin b
        THEN [result |-> "ESP_OK", eth |-> e, evq |-> q]
    ELSE esp_eth_stop(e, q, F)

\* The call stop_eth makes into the driver, if it makes one.
stop_eth_calls(h, b, e, q, F) ==
    IF NotInitialized(h) \/ "BIT_ETH_START" \notin b THEN <<>>
    ELSE <<<<"esp_eth_stop", esp_eth_stop(e, q, F).result>>>>

(***************************************************************************)
(* The calls into esp_netif made by set_eth_cfg: the interface they leave  *)
(* and the code they return.  `ok` is FALSE when the netif pointer handed  *)
(* over is NULL: the call is refused.                                      *)
(***************************************************************************)
\* A DHCP client that cannot be stopped.
esp_netif_dhcpc_stop_noop(n, ok, F) == n

\* Stopping a running client also resets the address it had obtained.
esp_netif_dhcpc_stop(n, ok, F) ==
    IF ~ok \/ "dhcpc_stop" \in F THEN n
    ELSE IF n.dhcpc = "STARTED"
        THEN [n EXCEPT !.dhcpc = "STOPPED", !.ip_info = ZeroIp]
    ELSE [n EXCEPT !.dhcpc = "STOPPED"]

esp_netif_dhcpc_stop_err(n, ok, F) ==
    IF ~ok THEN "ESP_ERR_ESP_NETIF_INVALID_PARAMS"
    ELSE IF "dhcpc_stop" \in F THEN "ESP_FAIL"
    ELSE IF n.dhcpc = "STOPPED" THEN "ESP_ERR_ESP_NETIF_DHCP_ALREADY_STOPPED"
    ELSE "ESP_OK"

\* Refused while the DHCP client is not stopped.
esp_netif_set_ip_info(n, ok, ipi, F) ==
    IF ~ok \/ "set_ip_info" \in F \/ n.dhcpc # "STOPPED" THEN n
    ELSE [n EXCEPT !.ip_info = ipi]

esp_netif_set_ip_info_err(n, ok, F) ==
    IF ~ok THEN "ESP_ERR_ESP_NETIF_INVALID_PARAMS"
    ELSE IF "set_ip_info" \in F THEN "ESP_FAIL"
    ELSE IF n.dhcpc # "STOPPED" THEN "ESP_ERR_ESP_NETIF_DHCP_NOT_STOPPED"
    ELSE "ESP_OK"

esp_netif_set_dns_info(n, ok, idx, addr, F) ==
    IF ~ok \/ DnsPoints[idx] \in F THEN n
    ELSE [n EXCEPT !.dns_info[idx] = addr]

esp_netif_set_dns_info_err(ok, idx, F) ==
    IF ~ok THEN "ESP_ERR_ESP_NETIF_INVALID_PARAMS"
    ELSE IF DnsPoints[idx] \in F THEN "ESP_FAIL"
    ELSE "ESP_OK"

esp_netif_dhcpc_start(n, ok, F) ==
    IF ~ok \/ "dhcpc_start" \in F THEN n ELSE [n EXCEPT !.dhcpc = "STARTED"]

esp_netif_dhcpc_start_err(n, ok, F) ==
    IF ~ok THEN "ESP_ERR_ESP_NETIF_INVALID_PARAMS"
    ELSE IF "dhcpc_start" \in F THEN "ESP_FAIL"
    ELSE IF n.dhcpc = "STARTED" THEN "ESP_ERR_ESP_NETIF_DHCP_ALREADY_STARTED"
    ELSE "ESP_OK"

\* A loop that takes no entry for the "any" address.
ip_addr_isany_val_never(addr) == FALSE

\* The "any" address is all zero.
ip_addr_isany_val(addr) == addr = 0

RECURSIVE SetDnsFrom(_, _, _, _, _)
\* The loop over cfg->dns_info from slot idx on; "any" entries are skipped.
SetDnsFrom(n, ok, dns, idx, F) ==
    IF idx > ESP_NETIF_DNS_MAX THEN n
    ELSE IF ip_addr_isany_val(dns[idx])
        THEN SetDnsFrom(n, ok, dns, idx + 1, F)
    ELSE SetDnsFrom(esp_netif_set_dns_info(n, ok, idx, dns[idx], F),
                    ok, dns, idx + 1, F)

RECURSIVE SetDnsCallsFrom(_, _, _, _)
\* The calls that loop makes, with the slot each one sets.
SetDnsCallsFrom(ok, dns, idx, F) ==
    IF idx > ESP_NETIF_DNS_MAX THEN <<>>
    ELSE IF ip_addr_isany_val(dns[idx])
        THEN SetDnsCallsFrom(ok, dns, idx + 1, F)
    ELSE <<<<DnsPoints[idx], esp_netif_set_dns_info_err(ok, idx, F)>>>>
            \o SetDnsCallsFrom(ok, dns, idx + 1, F)

(***************************************************************************)
(* set_eth_cfg.  With a NULL handle and an enabled configuration it reads  *)
(* handle->eth_netif through the NULL pointer: the firmware panics.        *)
(***************************************************************************)
\* The static branch, up to the call of start_eth.
set_eth_cfg_static(c, h, n, F) ==
    LET n1 == esp_netif_dhcpc_stop(n, h.eth_netif, F)
        n2 == esp_netif_set_ip_info(n1, h.eth_netif, c.ip_info, F)
    IN [netif |-> SetDnsFrom(n2, h.eth_netif, c.dns_info, 1, F),
        calls |->
            <<<<"esp_netif_dhcpc_stop",
                esp_netif_dhcpc_stop_err(n, h.eth_netif, F)>>,
              <<"esp_netif_set_ip_info",
                esp_netif_set_ip_info_err(n1, h.eth_netif, F)>>>>
            \o SetDnsCallsFrom(h.eth_netif, c.dns_info, 1, F)]

\* A DHCP branch that leaves the client as it finds it.
set_eth_cfg_dhcp_no_start(h, n, F) == [netif |-> n, calls |-> <<>>]

\* The DHCP branch, up to the call of start_eth.
set_eth_cfg_dhcp(h, n, F) ==
    [netif |-> esp_netif_dhcpc_start(n, h.eth_netif, F),
     calls |-> <<<<"esp_netif_dhcpc_start",
                   esp_netif_dhcpc_start_err(n, h.eth_netif, F)>>>>]

\* result = start_eth(); return result;  every earlier value of result has
\* been overwritten.
ApplyResult(calls, last_result) == last_result

\* A set_eth_cfg that goes on after stop_eth.
ReturnsAfterStop_never(c) == FALSE

\* if (cfg->is_disabled) { result = stop_eth(); return result; }
ReturnsAfterStop(c) == c.is_disabled

set_eth_cfg(c, h, b, n, e, q, F) ==
    IF c.is_disabled /\ ReturnsAfterStop(c)
    THEN LET r == stop_eth(h, b, e, q, F)
         IN [result |-> r.result, netif |-> n, eth |-> r.eth, evq |-> r.evq,
             panic |-> FALSE, calls |-> stop_eth_calls(h, b, e, q, F)]
    ELSE IF ~h.allocated
    THEN [result |-> "ESP_FAIL", netif |-> n, eth |-> e, evq |-> q,
          panic |-> TRUE, calls |-> <<>>]
    ELSE LET br == IF c.is_static THEN set_eth_cfg_static(c, h, n, F)
                   ELSE set_eth_cfg_dhcp(h, n, F)
             r == start_eth(h, b, e, q, F)
         IN [result |-> ApplyResult(br.calls, r.result), netif |-> br.netif,
             eth |-> r.eth, evq |-> r.evq, panic |-> FALSE,
             calls |-> br.calls \o start_eth_calls(h, b, e, q, F)]

(***************************************************************************)
(* eth_manager_init                                                        *)
(***************************************************************************)
\* A rollback that frees the handle and leaves the pointer set.
rollback_handle_dangling(h) == h

\* free(handle); handle = NULL;
rollback_handle(h) == NullHandle

\* An init that does not look at the handle it finds.
AlreadyInitialized_unchecked(h) == FALSE

\* if (NULL != handle)
AlreadyInitialized(h) == h.allocated

\* The state eth_manager_init leaves, and what it returns.  `step` names
\* the step that failed.
InitOutcome(result, step, h, b, g, n, e, q, reg) ==
    [result |-> result, step |-> step, handle |-> h, bits |-> b,
     eg_live |-> g, netif |-> n, eth |-> e, evq |-> q, registered |-> reg]

eth_manager_init_outcome(s, h, b, g, n, e, q, reg, F) ==
    LET h1 == [allocated |-> TRUE, eth_netif |-> FALSE, eth_handle |-> TRUE,
               eth_events |-> FALSE]
        h2 == [h1 EXCEPT !.eth_events = TRUE]
        h3 == [h2 EXCEPT !.eth_netif = TRUE]
        cfg_state ==
            get_saved_or_default_config(
                s, IF "nvs_open" \in F THEN {"open"} ELSE {}).cfg
        ap == set_eth_cfg(cfg_state, h3, {}, NoNetif, e, q, F)
    IN
    IF AlreadyInitialized(h)
        THEN InitOutcome("ESP_ERR_INVALID_STATE", "already",
                         h, b, g, n, e, q, reg)
    ELSE IF "calloc" \in F
        THEN InitOutcome("ESP_ERR_NO_MEM", "calloc", h, b, g, n, e, q, reg)
    ELSE IF "event_group" \in F
        THEN InitOutcome("ESP_ERR_NO_MEM", "event_group",
                         rollback_handle(h1), b, g, n, e, q, reg)
    \* esp_netif_new returned NULL: result still holds ESP_OK at on_exit.
    ELSE IF "netif_new" \in F
        THEN InitOutcome("ESP_OK", "netif_new", h2, {}, g + 1, n, e, q, reg)
    ELSE IF "attach" \in F
        THEN InitOutcome("ESP_FAIL", "attach",
                         rollback_handle(h3), {}, g, NoNetif, e, q, reg)
    ELSE IF "register" \in F
        THEN InitOutcome("ESP_FAIL", "register",
                         rollback_handle(h3), {}, g, NoNetif, e, q, reg)
    ELSE IF ap.result # "ESP_OK"
        THEN InitOutcome(ap.result, "apply",
                         rollback_handle(h3), {}, g, ap.netif, ap.eth, ap.evq,
                         TRUE)
    ELSE InitOutcome("ESP_OK", "none",
                     h3, {}, g + 1, ap.netif, ap.eth, ap.evq, TRUE)

(***************************************************************************)
(* cfgs_are_equal                                                          *)
(***************************************************************************)
\* A comparison without the test of is_static against is_static.
cfgs_are_equal_one_sided(a, b) ==
    IF a.is_disabled # b.is_disabled THEN FALSE
    ELSE IF a.is_static
    THEN /\ a.ip_info = b.ip_info
         /\ a.dns_info = b.dns_info
    ELSE TRUE

\* A comparison that looks at the addresses of non-static records too.
cfgs_are_equal_deep(a, b) ==
    /\ a.is_disabled = b.is_disabled
    /\ a.is_static = b.is_static
    /\ a.ip_info = b.ip_info
    /\ a.dns_info = b.dns_info

cfgs_are_equal(a, b) ==
    IF a.is_disabled # b.is_disabled THEN FALSE
    ELSE IF a.is_static # b.is_static THEN FALSE
    ELSE IF a.is_static
    THEN IF a.ip_info.ip # b.ip_info.ip THEN FALSE
         ELSE IF a.ip_info.netmask # b.ip_info.netmask THEN FALSE
         ELSE IF a.ip_info.gw # b.ip_info.gw THEN FALSE
         ELSE \A idx \in 1..ESP_NETIF_DNS_MAX : a.dns_info[idx] = b.dns_info[idx]
    ELSE TRUE

(***************************************************************************)
(* eth_connected, get_eth_state                                            *)
(***************************************************************************)
\* A link test that looks at the started bit.
eth_connected_by_start_bit(h, b) ==
    h.allocated /\ h.eth_events /\ "BIT_ETH_START" \in b

eth_connected(h, b) ==
    IF ~h.allocated \/ ~h.eth_events THEN FALSE
    ELSE "BIT_ETH_CONNECTED" \in b

GetDnsPoints == <<"get_dns_0", "get_dns_1", "get_dns_2">>
QueryPoints ==
    {"open", "get_status", "get_ip_info"}
        \cup {GetDnsPoints[i] : i \in 1..ESP_NETIF_DNS_MAX}
\* No call fails, or one does.
QueryFaultSets == {{}} \cup {{p} : p \in QueryPoints}

\* The code of a read of the interface: refused for a NULL netif.
esp_netif_get_err(ok, point, F) ==
    IF ~ok THEN "ESP_ERR_ESP_NETIF_INVALID_PARAMS"
    ELSE IF point \in F THEN "ESP_FAIL"
    ELSE "ESP_OK"

\* Number of esp_netif_get_dns_info calls that succeed before one fails.
GetDnsDone(ok, F) ==
    IF ~ok THEN 0
    ELSE IF \E i \in 1..ESP_NETIF_DNS_MAX : GetDnsPoints[i] \in F
    THEN (CHOOSE i \in 1..ESP_NETIF_DNS_MAX : GetDnsPoints[i] \in F) - 1
    ELSE ESP_NETIF_DNS_MAX

\* A state query that reads the addresses only of a static interface.
QueriesAddresses_if_static(is_static) == is_static

\* esp_netif_get_ip_info and the esp_netif_get_dns_info loop are reached
\* whatever the DHCP status is.
QueriesAddresses(is_static) == TRUE

\* The connected branch of get_eth_state.
get_eth_state_live(h, n, F) ==
    LET ok == h.eth_netif
        c0 == [eth_cfg_init EXCEPT !.is_connected = TRUE]
        c1 == [c0 EXCEPT !.is_static = (n.dhcpc = "STOPPED")]
        c2 == [c1 EXCEPT !.ip_info = n.ip_info]
        nd == GetDnsDone(ok, F)
        c3 == [c2 EXCEPT !.dns_info =
                  [i \in 1..ESP_NETIF_DNS_MAX |->
                        IF i <= nd THEN n.dns_info[i] ELSE 0]]
        k1 == <<"esp_netif_dhcpc_get_status",
                esp_netif_get_err(ok, "get_status", F)>>
        k2 == <<"esp_netif_get_ip_info",
                esp_netif_get_err(ok, "get_ip_info", F)>>
        kd == [i \in 1..(IF nd < ESP_NETIF_DNS_MAX THEN nd + 1 ELSE nd) |->
                <<"esp_netif_get_dns_info",
                  esp_netif_get_err(ok, GetDnsPoints[i], F)>>]
    IN
    IF k1[2] # "ESP_OK" THEN [result |-> k1[2], cfg |-> c0, calls |-> <<k1>>]
    ELSE IF ~QueriesAddresses(c1.is_static)
        THEN [result |-> "ESP_OK", cfg |-> [c1 EXCEPT !.is_valid = TRUE],
              calls |-> <<k1>>]
    ELSE IF k2[2] # "ESP_OK"
        THEN [result |-> k2[2], cfg |-> c1, calls |-> <<k1, k2>>]
    ELSE IF nd < ESP_NETIF_DNS_MAX
        THEN [result |-> kd[nd + 1][2], cfg |-> c3, calls |-> <<k1, k2>> \o kd]
    ELSE [result |-> "ESP_OK", cfg |-> [c3 EXCEPT !.is_valid = TRUE],
          calls |-> <<k1, k2>> \o kd]

\* A state query that asks the interface without looking at the link.
get_eth_state_always_live(s, h, b, n, F) == get_eth_state_live(h, n, F)

get_eth_state(s, h, b, n, F) ==
    IF ~eth_connected(h, b)
    THEN LET r == get_saved_or_default_config(s, F \cap {"open"})
         IN [result |-> r.result,
             cfg |-> [r.cfg EXCEPT !.is_connected = FALSE], calls |-> <<>>]
    ELSE get_eth_state_live(h, n, F)

(***************************************************************************)
(* eth_manager_set_hostname                                                *)
(***************************************************************************)
ESP_NETIF_HOSTNAME_MAX_SIZE == 32
\* The names handed over: a short one and one that is too long.
Hostnames == {4, ESP_NETIF_HOSTNAME_MAX_SIZE + 1}
HostnameFaultSets == {{}, {"set_hostname"}}

esp_netif_set_hostname(n, name, F) ==
    IF "set_hostname" \in F THEN [result |-> "ESP_FAIL", netif |-> n]
    ELSE IF name > ESP_NETIF_HOSTNAME_MAX_SIZE
        THEN [result |-> "ESP_ERR_ESP_NETIF_INVALID_PARAMS", netif |-> n]
    ELSE [result |-> "ESP_OK", netif |-> [n EXCEPT !.hostname = name]]

\* A set_hostname that does not look at the handle.
HostnameRefused_never(h) == FALSE

\* if (NULL == handle || NULL == handle->eth_netif)
HostnameRefused(h) == ~h.allocated \/ ~h.eth_netif

set_hostname(h, n, name, F) ==
    IF HostnameRefused(h)
        THEN [result |-> "ESP_ERR_INVALID_STATE", netif |-> n, calls |-> <<>>]
    ELSE LET r == esp_netif_set_hostname(n, name, F)
         IN [result |-> r.result, netif |-> r.netif,
             calls |-> <<<<"esp_netif_set_hostname", r.result>>>>]

(***************************************************************************)
(* eth_event_handler                                                       *)
(***************************************************************************)
\* The four identifiers of eth_event_t, one the enumeration does not have,
\* and one event of the class IP_EVENT.
EthEvents ==
    {"ETHERNET_EVENT_START", "ETHERNET_EVENT_STOP",
     "ETHERNET_EVENT_CONNECTED", "ETHERNET_EVENT_DISCONNECTED"}
OtherEvents == {"ETH_EVENT_UNKNOWN_ID", "IP_EVENT_ETH_GOT_IP"}
EventBase(event_id) ==
    IF event_id = "IP_EVENT_ETH_GOT_IP" THEN "IP_EVENT" ELSE "ETH_EVENT"

\* A handler whose STOP case clears the link bit too.
eth_event_handler_stop_clears_link(b, event_base, event_id) ==
    IF event_base # "ETH_EVENT" THEN b
    ELSE CASE event_id = "ETHERNET_EVENT_CONNECTED" -> b \cup {"BIT_ETH_CONNECTED"}
           [] event_id = "ETHERNET_EVENT_DISCONNECTED" -> b \ {"BIT_ETH_CONNECTED"}
           [] event_id = "ETHERNET_EVENT_START" -> b \cup {"BIT_ETH_START"}
           [] event_id = "ETHERNET_EVENT_STOP" -> {}
           [] OTHER -> b

eth_event_handler(b, event_base, event_id) ==
    IF event_base # "ETH_EVENT" THEN b
    ELSE CASE event_id = "ETHERNET_EVENT_CONNECTED" -> b \cup {"BIT_ETH_CONNECTED"}
           [] event_id = "ETHERNET_EVENT_DISCONNECTED" -> b \ {"BIT_ETH_CONNECTED"}
           [] event_id = "ETHERNET_EVENT_START" -> b \cup {"BIT_ETH_START"}
           [] event_id = "ETHERNET_EVENT_STOP" -> b \ {"BIT_ETH_START"}
           [] OTHER -> b

(***************************************************************************)
(* What an earlier run or another build may have left in the namespace.    *)
(***************************************************************************)
RecordOf(c, ver) ==
    [k \in Keys |->
        CASE k = "version" -> ver
          [] k = "eth_static" -> BoolToU32(c.is_static)
          [] k = "eth_disable" -> BoolToU32(c.is_disabled)
          [] k = "eth_ip" -> IpToBlob(c.ip_info)
          [] k = "eth_dns" -> DnsToBlob(c.dns_info)]

Drop(s, key) == [k \in (DOMAIN s) \ {key} |-> s[k]]

SavedCfgs == {c \in Cfgs : ~c.is_default}
\* A record with every field set, to damage.
FullCfg ==
    [is_default |-> FALSE, is_valid |-> TRUE, is_connected |-> FALSE,
     is_disabled |-> TRUE, is_static |-> TRUE,
     ip_info |-> IpInfoOf(1), dns_info |-> DnsOf(1)]

InitStores ==
    {WriteFirst(EmptyStore, c, n) : c \in SavedCfgs, n \in 0..5}
    \cup {RecordOf(FullCfg, v) : v \in 0..MaxVer}
    \cup {Drop(RecordOf(FullCfg, v), k) : k \in Keys, v \in {NVS_CFG_VER, MaxVer}}
    \cup {NvsSet(RecordOf(FullCfg, NVS_CFG_VER), k, b) :
            k \in {"eth_ip", "eth_dns"},
            b \in {<<1, 2>>, <<1, 2, 3, 4>>, <<>>}}
    \cup {NvsSet(RecordOf(FullCfg, NVS_CFG_VER), k, 2) :
            k \in {"eth_static", "eth_disable"}}

(***************************************************************************)
(* The persistence layer on its own: save, load, resolve, power loss.      *)
(***************************************************************************)
InitStore ==
    /\ store \in InitStores
    /\ InitVolatile

\* save_config(c) runs to its return.  Every content the store can take
\* is an initial state, so one save per behaviour meets them all.
SaveConfig(c, F) ==
    LET r == save_config(store, c, F)
    IN /\ last.op = "boot"
       /\ store' = r.store
       /\ last' = Call("save_config", r.result, "none", F, c, eth_cfg_init)
       /\ UNCHANGED volatile

\* Power is lost inside save_config(c) after k of its storage operations;
\* the device restarts with the flash as it was at that moment.  The
\* contents a failing run goes through (the old record, nothing, a prefix
\* of the new record) are all among those of the run without a fault.
PowerLoss(c, k) ==
    /\ last.op = "boot"
    /\ store' = save_cut(store, c, k)
    /\ last' = Call("power_loss", "ESP_OK", "none", {}, c, eth_cfg_init)
    /\ UNCHANGED volatile

\* get_saved_config() runs to its return.
LoadConfig(F) ==
    LET r == get_saved_config(store, F)
    IN /\ last' = Call("get_saved_config", r.result, "none", F, eth_cfg_init, r.cfg)
       /\ UNCHANGED <<store, volatile>>

\* A query that erases the record it has read.
eth_manager_get_eth_cfg_erasing(F) ==
    LET r == get_saved_or_default_config(store, F)
    IN /\ last' = Call("get_eth_cfg", r.result, "none", F, eth_cfg_init, r.cfg)
       /\ store' = EmptyStore
       /\ UNCHANGED volatile

\* eth_manager_get_eth_cfg(): get_saved_or_default_config().
eth_manager_get_eth_cfg(F) ==
    LET r == get_saved_or_default_config(store, F)
    IN /\ last' = Call("get_eth_cfg", r.result, "none", F, eth_cfg_init, r.cfg)
       /\ UNCHANGED <<store, volatile>>

ReadFaultSets == {{}, {"open"}}

NextStore ==
    \/ \E c \in Cfgs, F \in StoreFaultSets : SaveConfig(c, F)
    \/ \E c \in Cfgs, k \in 0..6 : PowerLoss(c, k)
    \/ \E F \in ReadFaultSets : LoadConfig(F)
    \/ \E F \in ReadFaultSets : eth_manager_get_eth_cfg(F)

SpecStore == InitStore /\ [][NextStore]_vars

(***************************************************************************)
(* The manager as a whole: foreground calls, the event loop, the link.     *)
(***************************************************************************)
Init ==
    /\ store = EmptyStore
    /\ InitVolatile

\* The firmware panics and restarts: the RAM is lost, the flash is kept.
Restarted(s) ==
    /\ store' = s
    /\ handle' = NullHandle
    /\ bits' = {}
    /\ eg_live' = 0
    /\ netif' = NoNetif
    /\ eth' = [started |-> FALSE, link |-> FALSE]
    /\ evq' = <<>>
    /\ registered' = FALSE

eth_manager_init(F) ==
    \E o \in {eth_manager_init_outcome(store, handle, bits, eg_live, netif,
                                       eth, evq, registered, F)} :
       /\ handle' = o.handle
       /\ bits' = o.bits
       /\ eg_live' = o.eg_live
       /\ netif' = o.netif
       /\ eth' = o.eth
       /\ evq' = o.evq
       /\ registered' = o.registered
       /\ last' = Call("init", o.result, o.step, {}, eth_cfg_init, eth_cfg_init)
       /\ UNCHANGED store

\* Configurations as a settings page builds them: a static one carries the
\* first address with the first set of name servers, the others carry no
\* address, the factory defaults are all zero.
LifeCfgs ==
    {c \in Cfgs :
        /\ c.is_static => (c.ip_info = IpInfoOf(1) /\ c.dns_info = DnsOf(1))
        /\ ~c.is_static => (c.ip_info = ZeroIp /\ c.dns_info = ZeroDns)
        /\ c.is_default => (~c.is_static /\ ~c.is_disabled)}

\* Faults met inside eth_manager_set_eth_cfg: in save_config (first
\* component) or in set_eth_cfg (second component).
SaveFaultSets == {{}, {"open"}, {"set_dns"}}
SetCfgFaults ==
    {<<Fs, {}>> : Fs \in SaveFaultSets}
        \cup {<<{}, F>> : F \in ApplyFaultSets}

\* A wrapper that gives up the result of set_eth_cfg for the error of
\* save_config.
SetCfgResult_save_first(sv, ap) ==
    IF sv.result # "ESP_OK" THEN sv.result ELSE ap.result

\* save_config(new_cfg); return set_eth_cfg(new_cfg);
SetCfgResult(sv, ap) == ap.result

eth_manager_set_eth_cfg(c, Fs, F) ==
    \E sv \in {save_config(store, c, Fs)},
       ap \in {set_eth_cfg(c, handle, bits, netif, eth, evq, F)} :
       IF ap.panic
       THEN /\ Restarted(sv.store)
            /\ last' = Call("panic", "ESP_FAIL", "set_eth_cfg", {}, c, eth_cfg_init)
       ELSE /\ store' = sv.store
            /\ netif' = ap.netif
            /\ eth' = ap.eth
            /\ evq' = ap.evq
            /\ last' = CallIf("set_eth_cfg", SetCfgResult(sv, ap),
                              IF sv.result = "ESP_OK" THEN "none" ELSE "save",
                              {}, c, eth_cfg_init, ap.calls)
            /\ UNCHANGED <<handle, bits, eg_live, registered>>

\* The event loop dispatches the oldest event.  The handler is registered
\* for ETH_EVENT with any identifier: an event of another class is not
\* handed to it.  The four cases of the handler read handle->eth_events
\* without a check: with a NULL handle the firmware panics.
DeliverEvent ==
    /\ evq # <<>>
    /\ IF ~registered \/ EventBase(Head(evq)) # "ETH_EVENT"
       THEN /\ evq' = Tail(evq)
            /\ UNCHANGED <<store, handle, bits, eg_live, netif, eth,
                           registered, last>>
       ELSE IF /\ ~handle.allocated \/ ~handle.eth_events
               /\ Head(evq) \in EthEvents
       THEN /\ Restarted(store)
            /\ last' = Call("panic", "ESP_FAIL", "event", {}, eth_cfg_init,
                            eth_cfg_init)
       ELSE /\ evq' = Tail(evq)
            /\ bits' = eth_event_handler(bits, "ETH_EVENT", Head(evq))
            /\ UNCHANGED <<store, handle, eg_live, netif, eth, registered,
                           last>>

\* The driver sees the link come up, or go down, and posts the event.
LinkUp ==
    /\ eth.started /\ ~eth.link
    /\ Len(evq) < MaxEvq
    /\ eth' = [eth EXCEPT !.link = TRUE]
    /\ evq' = Append(evq, "ETHERNET_EVENT_CONNECTED")
    /\ UNCHANGED <<store, handle, bits, eg_live, netif, registered, last>>

LinkDown ==
    /\ eth.started /\ eth.link
    /\ Len(evq) < MaxEvq
    /\ eth' = [eth EXCEPT !.link = FALSE]
    /\ evq' = Append(evq, "ETHERNET_EVENT_DISCONNECTED")
    /\ UNCHANGED <<store, handle, bits, eg_live, netif, registered, last>>

Next ==
    \/ \E F \in LifeFaultSets : eth_manager_init(F)
    \/ \E c \in LifeCfgs, FF \in SetCfgFaults :
            eth_manager_set_eth_cfg(c, FF[1], FF[2])
    \/ DeliverEvent
    \/ LinkUp
    \/ LinkDown

Spec == Init /\ [][Next]_vars

(***************************************************************************)
(* The manager with its queries: state, stored configuration, host name.   *)
(***************************************************************************)
eth_manager_get_eth_state(F) ==
    LET r == get_eth_state(store, handle, bits, netif, F)
    IN /\ last' = CallIf("get_eth_state", r.result, "none", F, eth_cfg_init,
                         r.cfg, r.calls)
       /\ UNCHANGED <<store, volatile>>

eth_manager_set_hostname(name, F) ==
    LET r == set_hostname(handle, netif, name, F)
    IN /\ netif' = r.netif
       /\ last' = CallIf("set_hostname", r.result, "none", {}, eth_cfg_init,
                         eth_cfg_init, r.calls)
       /\ UNCHANGED <<store, handle, bits, eg_live, eth, evq, registered>>

\* esp_netif_new succeeds or returns NULL; no other collaborator fails
\* in eth_manager_init and eth_manager_set_eth_cfg.
StateInitFaultSets == {{}, {"netif_new"}}

NextState ==
    \/ \E F \in StateInitFaultSets : eth_manager_init(F)
    \/ \E c \in LifeCfgs : eth_manager_set_eth_cfg(c, {}, {})
    \/ DeliverEvent
    \/ LinkUp
    \/ LinkDown
    \/ \E F \in QueryFaultSets : eth_manager_get_eth_state(F)
    \/ eth_manager_get_eth_cfg({})
    \/ \E name \in Hostnames, F \in HostnameFaultSets :
            eth_manager_set_hostname(name, F)

SpecState == Init /\ [][NextState]_vars

(***************************************************************************)
(* The manager and the event loop, with the events of other components.    *)
(***************************************************************************)
\* Another component posts an event the driver never posts: an ETH_EVENT
\* with an unknown identifier, or an event of the class IP_EVENT.
PostOther(ev) ==
    /\ Len(evq) < MaxEvq
    /\ evq' = Append(evq, ev)
    /\ UNCHANGED <<store, handle, bits, eg_live, netif, eth, registered, last>>

NextEvents ==
    \/ eth_manager_init({})
    \/ \E c \in LifeCfgs : eth_manager_set_eth_cfg(c, {}, {})
    \/ DeliverEvent
    \/ LinkUp
    \/ LinkDown
    \/ \E ev \in OtherEvents : PostOther(ev)

SpecEvents == Init /\ [][NextEvents]_vars

(***************************************************************************)
(* The earlier revision of the manager: the interface is the global        *)
(* eth_netif, the configuration is reached through netman_set_eth_cfg and  *)
(* netman_get_eth_cfg.  Its struct eth_cfg has the fields eth_static,      *)
(* eth_connect, eth_ip_info and eth_dns_info.  The functions that carry    *)
(* the name of one of the present revision are written old_...; the global *)
(* eth_netif is the field eth_netif of `handle`.                           *)
(***************************************************************************)
\* memset(cfg, 0x0, sizeof(*cfg))
old_cfg_zero ==
    [is_default |-> FALSE, is_valid |-> FALSE, eth_static |-> FALSE,
     eth_connect |-> FALSE, eth_ip_info |-> ZeroIp, eth_dns_info |-> ZeroDns]

old_set_defaults ==
    [old_cfg_zero EXCEPT !.is_default = TRUE, !.is_valid = TRUE,
                         !.eth_static = FALSE, !.eth_connect = TRUE]

\* The name servers of a record by which slots are set: set_eth_cfg skips
\* a slot that holds the "any" address, so the pattern decides its calls.
OldDnsInfos ==
    {[i \in 1..ESP_NETIF_DNS_MAX |-> IF i \in S THEN 10 + i ELSE 0] :
        S \in SUBSET (1..ESP_NETIF_DNS_MAX)}

\* Every value of a struct eth_cfg over the first address: the flags do not
\* bind the addresses, and any of the name servers can be set.  It is what
\* bytes that nobody has written can hold.
OldAllCfgs ==
    {[is_default |-> df, is_valid |-> v, eth_static |-> st,
      eth_connect |-> cn, eth_ip_info |-> ipi, eth_dns_info |-> dns] :
        df \in BOOLEAN, v \in BOOLEAN, st \in BOOLEAN, cn \in BOOLEAN,
        ipi \in {ZeroIp, IpInfoOf(1)}, dns \in OldDnsInfos}

\* What a caller hands to netman_set_eth_cfg: the defaults, or a record of
\* its own with any mode and address and with no name server or the first
\* and the last.  is_valid is not read on that path.
OldSetCfgs ==
    {old_set_defaults} \cup
    {c \in OldAllCfgs :
        /\ ~c.is_default /\ c.is_valid
        /\ c.eth_dns_info \in {ZeroDns, DnsOf(1)}}

\* The buffers a caller hands to netman_get_eth_cfg: a zeroed one and one
\* that holds a static record.
OldBufs ==
    {old_cfg_zero,
     [is_default |-> FALSE, is_valid |-> TRUE, eth_static |-> TRUE,
      eth_connect |-> TRUE, eth_ip_info |-> IpInfoOf(1),
      eth_dns_info |-> DnsOf(1)]}

old_get_saved_config(s, F) ==
    LET c0 == old_cfg_zero
        c1 == [c0 EXCEPT !.eth_static = U32ToBool(s["eth_static"])]
        c2 == [c1 EXCEPT !.eth_connect = U32ToBool(s["eth_connect"])]
        c3 == [c2 EXCEPT !.eth_ip_info = BlobToIp(s["eth_ip"])]
        c4 == [c3 EXCEPT !.eth_dns_info =
                            BlobInto(s["eth_dns"], ESP_NETIF_DNS_MAX)]
    IN
    IF "open" \in F THEN [result |-> "ESP_FAIL", cfg |-> c0]
    ELSE IF NvsGetErr(s, "version") # "ESP_OK"
        THEN [result |-> NvsGetErr(s, "version"), cfg |-> c0]
    ELSE IF s["version"] > NVS_CFG_VER
        THEN [result |-> "ESP_ERR_INVALID_VERSION", cfg |-> c0]
    ELSE IF NvsGetErr(s, "eth_static") # "ESP_OK"
        THEN [result |-> NvsGetErr(s, "eth_static"), cfg |-> c0]
    ELSE IF NvsGetErr(s, "eth_connect") # "ESP_OK"
        THEN [result |-> NvsGetErr(s, "eth_connect"), cfg |-> c1]
    ELSE IF NvsGetBlobErr(s, "eth_ip", IpInfoSize) # "ESP_OK"
        THEN [result |-> NvsGetBlobErr(s, "eth_ip", IpInfoSize), cfg |-> c2]
    ELSE IF Len(s["eth_ip"]) # IpInfoSize
        THEN [result |-> "ESP_ERR_NOT_FOUND", cfg |-> c3]
    ELSE IF NvsGetBlobErr(s, "eth_dns", ESP_NETIF_DNS_MAX) # "ESP_OK"
        THEN [result |-> NvsGetBlobErr(s, "eth_dns", ESP_NETIF_DNS_MAX),
              cfg |-> c3]
    ELSE IF Len(s["eth_dns"]) # ESP_NETIF_DNS_MAX
        THEN [result |-> "ESP_ERR_NOT_FOUND", cfg |-> c4]
    ELSE [result |-> "ESP_OK", cfg |-> c4]

\* save_config when every storage call succeeds: the namespace is erased,
\* and the five entries are written unless the record is the default one.
old_save_config(s, c) ==
    IF c.is_default THEN [result |-> "ESP_OK", store |-> EmptyStore]
    ELSE [result |-> "ESP_OK",
          store |-> [k \in {"version", "eth_static", "eth_connect",
                            "eth_ip", "eth_dns"} |->
                        CASE k = "version" -> NVS_CFG_VER
                          [] k = "eth_static" -> BoolToU32(c.eth_static)
                          [] k = "eth_connect" -> BoolToU32(c.eth_connect)
                          [] k = "eth_ip" -> IpToBlob(c.eth_ip_info)
                          [] k = "eth_dns" -> DnsToBlob(c.eth_dns_info)]]

\* set_eth_cfg: the value returned is the one assigned last.
old_set_eth_cfg(c, ok, n, F) ==
    IF c.eth_static
    THEN LET n1 == esp_netif_dhcpc_stop(n, ok, F)
             n2 == esp_netif_set_ip_info(n1, ok, c.eth_ip_info, F)
             calls == <<<<"esp_netif_dhcpc_stop",
                          esp_netif_dhcpc_stop_err(n, ok, F)>>,
                        <<"esp_netif_set_ip_info",
                          esp_netif_set_ip_info_err(n1, ok, F)>>>>
                        \o SetDnsCallsFrom(ok, c.eth_dns_info, 1, F)
         IN [result |-> calls[Len(calls)][2],
             netif |-> SetDnsFrom(n2, ok, c.eth_dns_info, 1, F),
             calls |-> calls]
    ELSE LET r == esp_netif_dhcpc_start_err(n, ok, F)
         IN [result |-> IF r = "ESP_ERR_ESP_NETIF_DHCP_ALREADY_STARTED"
                        THEN "ESP_OK" ELSE r,
             netif |-> esp_netif_dhcpc_start(n, ok, F),
             calls |-> <<<<"esp_netif_dhcpc_start", r>>>>]

\* get_effective_config(cfg): the record is resolved into the local
\* cfg_state, which is lost at the return; *cfg is never written, and the
\* code of get_saved_config is returned as it is.
get_effective_config(s, cfg, F) ==
    LET ld == old_get_saved_config(s, F)
        cfg_state == IF ld.result # "ESP_OK" THEN old_set_defaults
                     ELSE ld.cfg
    IN [result |-> ld.result, cfg |-> cfg]

\* netman_set_eth_cfg: save_config(new_cfg); return set_eth_cfg(new_cfg);
netman_set_eth_cfg(c) ==
    \E ap \in {old_set_eth_cfg(c, handle.eth_netif, netif, {})} :
        /\ store' = old_save_config(store, c).store
        /\ netif' = ap.netif
        /\ last' = CallIf("netman_set_eth_cfg", ap.result, "none", {}, c, c,
                          ap.calls)
        /\ UNCHANGED <<handle, bits, eg_live, eth, evq, registered>>

\* netman_get_eth_cfg(new_cfg), called with a buffer that holds buf.
netman_get_eth_cfg(buf, F) ==
    \E r \in {get_effective_config(store, buf, F)} :
        /\ last' = Call("netman_get_eth_cfg", r.result, "none", F, buf, r.cfg)
        /\ UNCHANGED <<store, volatile>>

OldInitPoints == {"netif_new", "attach", "register", "eth_start", "nvs_open"}
OldInitFaultSets == {{}} \cup {{p} : p \in OldInitPoints}

\* The values the local cfg_state of eth_manager_init can hold when
\* set_eth_cfg reads it.  It is never written: it holds what the stack
\* held, or, where the compiler gave it the place of the local of
\* get_effective_config, the record that function has just resolved.
UninitCfgs(s) ==
    LET ld == old_get_saved_config(s, {})
    IN OldAllCfgs \cup {ld.cfg, [ld.cfg EXCEPT !.is_valid = TRUE]}

\* The end of eth_manager_init at one of its steps: it has no output
\* parameter, what it did is in its calls and in the interface.
OldInitReturn(result, step, calls) ==
    CallIf("old_init", result, step, {}, old_cfg_zero, old_cfg_zero, calls)

\* eth_manager_init(eth_handle) of the earlier revision; eh is FALSE when
\* eth_handle is NULL.  cfg_state is a local that is not initialized: it
\* holds u.  There is no rollback: what was done before the failing step
\* stays.  An interface made by an earlier call is not destroyed: when
\* esp_netif_new returns NULL the global is NULL and that interface is as
\* it was.
old_eth_manager_init(eh, F, u) ==
    \E st \in {esp_eth_start(eth, evq, F)},
       ld \in {get_effective_config(
                    store, u, IF "nvs_open" \in F THEN {"open"} ELSE {})} :
    \E ap \in {old_set_eth_cfg(ld.cfg, TRUE, NoNetif, {})} :
       /\ UNCHANGED <<store, bits, eg_live>>
       /\ IF ~eh
          THEN /\ last' = OldInitReturn("ESP_ERR_INVALID_ARG", "eth_handle",
                                        <<>>)
               /\ UNCHANGED <<handle, netif, eth, evq, registered>>
          ELSE IF "netif_new" \in F
          \* eth_netif is NULL; err still holds ESP_OK at `error`.
          THEN /\ handle' = [handle EXCEPT !.eth_netif = FALSE]
               /\ last' = OldInitReturn("ESP_OK", "netif_new", <<>>)
               /\ UNCHANGED <<netif, eth, evq, registered>>
          ELSE /\ handle' = [handle EXCEPT !.eth_netif = TRUE]
               /\ IF "attach" \in F
                  THEN /\ netif' = NoNetif
                       /\ last' = OldInitReturn("ESP_FAIL", "attach", <<>>)
                       /\ UNCHANGED <<eth, evq, registered>>
                  ELSE IF "register" \in F
                  THEN /\ netif' = NoNetif
                       /\ last' = OldInitReturn("ESP_FAIL", "register", <<>>)
                       /\ UNCHANGED <<eth, evq, registered>>
                  ELSE /\ registered' = TRUE
                       /\ eth' = st.eth
                       /\ evq' = st.evq
                       /\ IF st.result # "ESP_OK"
                          THEN /\ netif' = NoNetif
                               /\ last' = OldInitReturn(st.result, "eth_start",
                                                        <<>>)
                          ELSE IF ld.result # "ESP_OK"
                          THEN /\ netif' = NoNetif
                               /\ last' = OldInitReturn(ld.result, "resolve",
                                                        <<>>)
                          ELSE /\ netif' = ap.netif
                               /\ last' = OldInitReturn(
                                            ap.result,
                                            IF ap.result = "ESP_OK"
                                            THEN "none" ELSE "apply",
                                            ap.calls)

\* eth_manager_set_hostname of the earlier revision.
old_eth_manager_set_hostname(name, F) ==
    IF ~handle.eth_netif
    THEN /\ last' = CallIf("old_set_hostname", "ESP_FAIL", "none", {},
                           old_cfg_zero, old_cfg_zero, <<>>)
         /\ UNCHANGED <<store, volatile>>
    ELSE \E r \in {esp_netif_set_hostname(netif, name, F)} :
         /\ netif' = r.netif
         /\ last' = CallIf("old_set_hostname", r.result, "none", {},
                           old_cfg_zero, old_cfg_zero,
                           <<<<"esp_netif_set_hostname", r.result>>>>)
         /\ UNCHANGED <<store, handle, bits, eg_live, eth, evq, registered>>

\* The handler of the earlier revision logs the event.
old_eth_event_handler ==
    /\ evq # <<>>
    /\ evq' = Tail(evq)
    /\ UNCHANGED <<store, handle, bits, eg_live, netif, eth, registered, last>>

\* cfg_state is read only by an eth_manager_init that comes to set_eth_cfg:
\* one that meets no fault, starts the driver and finds a record.
OldInitReadsCfg(F) ==
    /\ F = {}
    /\ esp_eth_start(eth, evq, {}).result = "ESP_OK"
    /\ old_get_saved_config(store, {}).result = "ESP_OK"

NextNetman ==
    \/ old_eth_manager_init(FALSE, {}, old_cfg_zero)
    \/ \E F \in OldInitFaultSets :
         \E u \in (IF OldInitReadsCfg(F) THEN UninitCfgs(store)
                   ELSE {old_cfg_zero}) :
            old_eth_manager_init(TRUE, F, u)
    \/ \E c \in OldSetCfgs : netman_set_eth_cfg(c)
    \/ \E buf \in OldBufs, F \in ReadFaultSets : netman_get_eth_cfg(buf, F)
    \/ \E name \in Hostnames, F \in HostnameFaultSets :
            old_eth_manager_set_hostname(name, F)
    \/ old_eth_event_handler
    \/ LinkUp
    \/ LinkDown

SpecNetman == Init /\ [][NextNetman]_vars

(***************************************************************************)
(* cfgs_are_equal on its own, over pairs of records with every flag.       *)
(***************************************************************************)
CmpCfgs ==
    {[c EXCEPT !.is_valid = v, !.is_connected = k] :
        c \in Cfgs, v \in BOOLEAN, k \in BOOLEAN}

BoolName(x) == IF x THEN "true" ELSE "false"

Compare(a, b) ==
    /\ last' = Call("cfgs_are_equal", BoolName(cfgs_are_equal(a, b)), "none",
                    {}, a, b)
    /\ UNCHANGED <<store, volatile>>

\* One comparison per behaviour: it depends on its two arguments only.
NextCompare ==
    /\ last.op = "boot"
    /\ \E a \in CmpCfgs, b \in CmpCfgs : Compare(a, b)

SpecCompare == Init /\ [][NextCompare]_vars

(***************************************************************************)
(* Properties of the persistence layer.                                    *)
(***************************************************************************)
\* The record a complete, readable store stands for.
Complete(s) ==
    /\ Keys \subseteq DOMAIN s
    /\ s["version"] <= NVS_CFG_VER
    /\ Len(s["eth_ip"]) = IpInfoSize
    /\ Len(s["eth_dns"]) = ESP_NETIF_DNS_MAX

Decoded(s) ==
    [is_default |-> FALSE, is_valid |-> TRUE, is_connected |-> FALSE,
     is_disabled |-> s["eth_disable"] # 0, is_static |-> s["eth_static"] # 0,
     ip_info |-> [ip |-> s["eth_ip"][1], netmask |-> s["eth_ip"][2],
                  gw |-> s["eth_ip"][3]],
     dns_info |-> [i \in 1..ESP_NETIF_DNS_MAX |-> s["eth_dns"][i]]]

\* The persisted fields of c, as a resolution returns them.
Persisted(c) ==
    [is_default |-> FALSE, is_valid |-> TRUE, is_connected |-> FALSE,
     is_disabled |-> c.is_disabled, is_static |-> c.is_static,
     ip_info |-> c.ip_info, dns_info |-> c.dns_info]

CompiledDefaults ==
    [is_default |-> TRUE, is_valid |-> TRUE, is_connected |-> FALSE,
     is_disabled |-> FALSE, is_static |-> FALSE,
     ip_info |-> [ip |-> 0, netmask |-> 0, gw |-> 0],
     dns_info |-> <<0, 0, 0>>]

Effective(s) == get_saved_or_default_config(s, {}).cfg

\* One of the five nvs_set_* calls of save_config was reached and failed.
WriteFailed(F) ==
    /\ F \cap {"open", "clear_open", "clear_erase", "clear_commit"} = {}
    /\ \E i \in 1..5 : WritePoints[i] \in F

\* C1: when one of the five field writes of save_config fails for a
\* non-default configuration, save_config returns the error and the store
\* holds no key at all on return.
C1_WriteFailureLeavesStoreEmpty ==
    (last.op = "save_config" /\ ~last.cfg.is_default /\ WriteFailed(last.F))
        => (last.result # "ESP_OK" /\ store = EmptyStore)

\* C2: a power loss at any point inside save_config leaves a store that
\* resolves to exactly the previous effective configuration, exactly the
\* new configuration, or exactly the compiled defaults.
C2_PowerLossNeverMixes ==
    [][last'.op = "power_loss"
        => \/ Effective(store') = Effective(store)
           \/ Effective(store') = Persisted(last'.cfg)
           \/ Effective(store') = CompiledDefaults]_vars

\* Power was lost after four of the five entries of a non-default
\* configuration were written.
C2_Witness ==
    /\ last.op = "power_loss"
    /\ ~last.cfg.is_default
    /\ last.cfg.is_static /\ last.cfg.is_disabled
    /\ store = WriteFirst(EmptyStore, last.cfg, 4)

\* C3: with no storage failure, save_config(c) of a non-default c followed
\* by get_saved_config() succeeds and yields the is_static, is_disabled,
\* ip_info and dns_info of c, with is_default = FALSE.
C3_SaveLoadRoundTrip ==
    (last.op = "save_config" /\ ~last.cfg.is_default /\ last.F = {})
        => /\ last.result = "ESP_OK"
           /\ LET r == get_saved_config(store, {})
              IN /\ r.result = "ESP_OK"
                 /\ r.cfg.is_static = last.cfg.is_static
                 /\ r.cfg.is_disabled = last.cfg.is_disabled
                 /\ r.cfg.ip_info.ip = last.cfg.ip_info.ip
                 /\ r.cfg.ip_info.netmask = last.cfg.ip_info.netmask
                 /\ r.cfg.ip_info.gw = last.cfg.ip_info.gw
                 /\ \A i \in 1..ESP_NETIF_DNS_MAX :
                        r.cfg.dns_info[i] = last.cfg.dns_info[i]
                 /\ r.cfg.is_default = FALSE

\* A disabled, non-static configuration with addresses was saved.
C3_Witness ==
    /\ last.op = "save_config" /\ last.F = {} /\ last.result = "ESP_OK"
    /\ ~last.cfg.is_default
    /\ last.cfg.is_disabled /\ ~last.cfg.is_static
    /\ last.cfg.ip_info # ZeroIp /\ last.cfg.dns_info # ZeroDns

\* C4: with no storage failure, save_config(c) of a c with is_default =
\* TRUE returns success and leaves the store empty whatever it held, so the
\* next resolution returns the compiled defaults; and whenever it returns
\* success the store is empty.
C4_DefaultIsNeverWritten ==
    (last.op = "save_config" /\ last.cfg.is_default)
        => /\ last.F = {} => last.result = "ESP_OK"
           /\ last.result = "ESP_OK"
                => (store = EmptyStore /\ Effective(store) = CompiledDefaults)

\* A default configuration carrying a static address was saved.
C4_Witness ==
    /\ last.op = "save_config" /\ last.F = {} /\ last.result = "ESP_OK"
    /\ last.cfg.is_default /\ last.cfg.is_static
    /\ last.cfg.ip_info # ZeroIp
    /\ store = EmptyStore

\* C5: get_saved_config succeeds only if the store holds all five keys,
\* a version not greater than NVS_CFG_VER and two blobs of the expected
\* size; once the namespace is open, a stored version greater than
\* NVS_CFG_VER fails with the version-mismatch error, and otherwise a
\* missing key or a wrong-sized blob fails with a not-found or length error.
C5_LoadIsAllOrNothing ==
    last.op = "get_saved_config"
        => /\ last.result = "ESP_OK" => Complete(store)
           /\ (last.F = {} /\ Complete(store)) => last.result = "ESP_OK"
           /\ (last.F = {} /\ "version" \in DOMAIN store
                  /\ store["version"] > NVS_CFG_VER)
                => last.result = "ESP_ERR_INVALID_VERSION"
           /\ (last.F = {} /\ ~Complete(store)
                  /\ ("version" \in DOMAIN store
                        => store["version"] <= NVS_CFG_VER))
                => last.result \in {"ESP_ERR_NVS_NOT_FOUND", "ESP_ERR_NOT_FOUND",
                                    "ESP_ERR_NVS_INVALID_LENGTH"}

\* A record with all five keys and a version from a newer build was read.
C5_Witness ==
    /\ last.op = "get_saved_config"
    /\ last.result = "ESP_ERR_INVALID_VERSION"
    /\ Keys \subseteq DOMAIN store

\* C6: the effective-configuration resolution always returns success with
\* is_valid = TRUE; the record is exactly the stored one (is_default =
\* FALSE) when the store is complete and readable, and exactly the compiled
\* defaults otherwise: nothing read before a failure survives.
C6_ResolutionAbsorbsFailures ==
    last.op = "get_eth_cfg"
        => /\ last.result = "ESP_OK"
           /\ last.out.is_valid
           /\ IF Complete(store) /\ last.F = {}
              THEN last.out = Decoded(store)
              ELSE last.out = CompiledDefaults

\* The load failed at the dns blob after it had read a static, disabled
\* record with an address.
C6_Witness ==
    /\ last.op = "get_eth_cfg" /\ last.F = {}
    /\ {"version", "eth_static", "eth_disable", "eth_ip"} \subseteq DOMAIN store
    /\ store["version"] <= NVS_CFG_VER
    /\ store["eth_static"] # 0 /\ store["eth_disable"] # 0
    /\ store["eth_ip"] = <<1, 2, 3>>
    /\ ~Complete(store)
    /\ last.out = CompiledDefaults

(***************************************************************************)
(* Properties of the lifecycle of the singleton.                           *)
(***************************************************************************)
FullyConstructed(h) ==
    h.allocated /\ h.eth_events /\ h.eth_netif /\ h.eth_handle

\* The last call was an eth_manager_init that returned an error other than
\* the one for an already initialized manager.
FailedInit ==
    last.op = "init" /\ last.result # "ESP_OK" /\ last.step # "already"

\* C7: whenever a step of eth_manager_init fails, eth_manager_init returns
\* a code other than ESP_OK.
C7_InitFailureIsReported ==
    (last.op = "init" /\ last.step # "none") => last.result # "ESP_OK"

\* C8: after eth_manager_init has returned, the handle is NULL or has its
\* event group, its network interface and its driver handle all set.
C8_NoHalfInitializedSingleton ==
    handle.allocated => FullyConstructed(handle)

\* C9: when eth_manager_init returns an error other than "already
\* initialized", the event group is released and the handle is NULL; the
\* next eth_manager_init is not rejected as already initialized, and
\* without a failing step it builds the whole singleton and returns ESP_OK.
C9_FailedInitRollsBack ==
    /\ [](FailedInit => (handle = NullHandle /\ eg_live = 0 /\ bits = {}))
    /\ [][FailedInit =>
            /\ (\E F \in LifeFaultSets : eth_manager_init(F))
                    => last'.step # "already"
            /\ eth_manager_init({})
                    => (last'.result = "ESP_OK" /\ FullyConstructed(handle')
                        /\ eg_live' = 1)]_vars

\* An init failed at the attach step after an earlier init had got as far
\* as registering the callback and was rolled back.
C9_Witness ==
    /\ FailedInit /\ last.step = "attach"
    /\ registered
    /\ handle = NullHandle

\* C10: eth_manager_init called with a non-NULL handle returns
\* ESP_ERR_INVALID_STATE and changes neither the handle, the event bits,
\* the interface, the driver, the pending events nor the store.
C10_SecondInitChangesNothing ==
    [][(/\ handle.allocated
        /\ last'.op = "init"
        /\ \E F \in LifeFaultSets : eth_manager_init(F))
        => /\ last'.result = "ESP_ERR_INVALID_STATE"
           /\ UNCHANGED <<store, handle, bits, eg_live, netif, eth, evq,
                          registered>>]_vars

\* A second init was refused while the link was up, a static record was
\* stored and the interface carried its address.
C10_Witness ==
    /\ last.op = "init" /\ last.step = "already"
    /\ last.result = "ESP_ERR_INVALID_STATE"
    /\ FullyConstructed(handle)
    /\ bits = {"BIT_ETH_START", "BIT_ETH_CONNECTED"}
    /\ Complete(store) /\ store["eth_static"] = 1
    /\ netif.ip_info # ZeroIp

(***************************************************************************)
(* Properties of set_eth_cfg and of eth_manager_set_eth_cfg.               *)
(***************************************************************************)
\* The step is a call of eth_manager_set_eth_cfg that returned.
SetCfgStep ==
    /\ last'.op = "set_eth_cfg"
    /\ ~DeliverEvent /\ ~LinkUp /\ ~LinkDown

\* No call failed by a fault of the collaborator: what is left are the
\* answers "already in the requested state".
NoInjected(calls) == \A i \in 1..Len(calls) : calls[i][2] # "ESP_FAIL"

\* The collaborator faults a list of calls shows.
PointOf(name) ==
    CASE name = "esp_netif_dhcpc_stop" -> "dhcpc_stop"
      [] name = "esp_netif_set_ip_info" -> "set_ip_info"
      [] name = "esp_netif_dhcpc_start" -> "dhcpc_start"
      [] name = "esp_eth_start" -> "eth_start"
      [] name = "esp_eth_stop" -> "eth_stop"
      [] OTHER -> name

FaultsSeen(calls) ==
    {PointOf(calls[i][1]) : i \in {j \in 1..Len(calls) : calls[j][2] = "ESP_FAIL"}}

\* The call k is one whose failure the caller has to see.
MustSurface(k) ==
    /\ k[2] # "ESP_OK"
    /\ \/ k[1] \in {"esp_netif_set_ip_info", "esp_eth_start", "esp_eth_stop"}
       \/ /\ k[1] = "esp_netif_dhcpc_start"
          /\ k[2] # "ESP_ERR_ESP_NETIF_DHCP_ALREADY_STARTED"

\* C11: on a fully built singleton, when esp_netif_set_ip_info fails, or
\* esp_netif_dhcpc_start fails with anything but "already started", or
\* esp_eth_start / esp_eth_stop fails during set_eth_cfg, set_eth_cfg
\* returns a code other than ESP_OK.
C11_ApplyFailureIsSurfaced ==
    (last.op = "set_eth_cfg" /\ FullyConstructed(handle))
        => \A i \in 1..Len(last.calls) :
                MustSurface(last.calls[i]) => last.result # "ESP_OK"

\* C12: with the singleton fully built, when set_eth_cfg of a non-static,
\* non-disabled configuration has returned ESP_OK, the next call with the
\* same configuration returns ESP_OK too, whether the START event of the
\* first call has been dispatched or is still pending, as long as no
\* collaborator fails other than by answering "already started".
C12_RepeatedApplyIsIdempotent ==
    [][(/\ last.op = "set_eth_cfg" /\ last.result = "ESP_OK"
        /\ FullyConstructed(handle)
        /\ ~last.cfg.is_static /\ ~last.cfg.is_disabled
        /\ SetCfgStep
        /\ last'.cfg = last.cfg
        /\ NoInjected(last'.calls))
            => last'.result = "ESP_OK"]_vars

\* C13: set_eth_cfg of a disabled configuration calls stop_eth and returns
\* its result: the interface keeps its DHCP mode and addresses, the only
\* call that can be made is esp_eth_stop, and the driver is not started by
\* it, whether the configuration is static or not.
C13_DisabledOnlyStops ==
    [][(SetCfgStep /\ last'.cfg.is_disabled)
            => /\ netif' = netif
               /\ \A i \in 1..Len(last'.calls) :
                        last'.calls[i][1] = "esp_eth_stop"
               /\ eth'.started => eth.started
               /\ LET r == stop_eth(handle, bits, eth, evq,
                                     FaultsSeen(last'.calls))
                  IN /\ last'.result = r.result
                     /\ eth' = r.eth
                     /\ evq' = r.evq]_vars

\* A disabled configuration with a static address was applied while the
\* driver ran: the driver was stopped and the interface has no address.
C13_Witness ==
    /\ last.op = "set_eth_cfg"
    /\ last.cfg.is_disabled /\ last.cfg.is_static
    /\ last.cfg.ip_info # ZeroIp
    /\ last.calls = <<<<"esp_eth_stop", "ESP_OK">>>>
    /\ ~eth.started
    /\ netif.ip_info = ZeroIp

\* C14: eth_manager_set_eth_cfg(c) returns exactly what set_eth_cfg(c)
\* returns on the state found at the call, under the collaborator faults
\* its calls show, and leaves the interface and the driver as set_eth_cfg(c)
\* leaves them, also when save_config(c) failed; the store is then the
\* old record or empty, and otherwise the record of c.
C14_SaveNeverBlocksApply ==
    [][SetCfgStep
        => /\ set_eth_cfg(last'.cfg, handle, bits, netif, eth, evq,
                          FaultsSeen(last'.calls))
                = [result |-> last'.result, netif |-> netif', eth |-> eth',
                   evq |-> evq', panic |-> FALSE, calls |-> last'.calls]
           /\ last'.step = "save" => FaultsSeen(last'.calls) = {}
           /\ IF last'.step = "save"
              THEN store' \in {store, EmptyStore}
              ELSE store' = IF last'.cfg.is_default THEN EmptyStore
                            ELSE RecordOf(last'.cfg, NVS_CFG_VER)]_vars

\* save_config failed and erased the record, and the static configuration
\* was applied all the same: the call returned ESP_OK.
C14_Witness ==
    /\ last.op = "set_eth_cfg" /\ last.step = "save"
    /\ last.result = "ESP_OK"
    /\ last.cfg.is_static /\ ~last.cfg.is_disabled
    /\ store = EmptyStore
    /\ netif.dhcpc = "STOPPED"
    /\ netif.ip_info = last.cfg.ip_info

(***************************************************************************)
(* Properties of the queries.                                              *)
(***************************************************************************)
\* The step is a call of eth_manager_get_eth_state that returned.
GetStateStep ==
    /\ last'.op = "get_eth_state"
    /\ ~DeliverEvent /\ ~LinkUp /\ ~LinkDown

\* The step is a call of eth_manager_set_hostname that returned.
SetHostnameStep ==
    /\ last'.op = "set_hostname"
    /\ ~DeliverEvent /\ ~LinkUp /\ ~LinkDown

\* The step dispatches the event ev to the registered callback.
Dispatches(ev) ==
    /\ DeliverEvent /\ registered
    /\ Head(evq) = ev

Ready == FullyConstructed(handle) /\ registered

Connected(b) == "BIT_ETH_CONNECTED" \in b

\* C15: with the manager ready, dispatching ETHERNET_EVENT_CONNECTED leaves
\* the connected bit set and dispatching ETHERNET_EVENT_DISCONNECTED leaves
\* it clear, whatever it was before; no other step changes the bit; and
\* every eth_manager_get_eth_state returns is_connected equal to the bit.
C15_StateFollowsLinkEvents ==
    [][Ready =>
        /\ Dispatches("ETHERNET_EVENT_CONNECTED") => Connected(bits')
        /\ Dispatches("ETHERNET_EVENT_DISCONNECTED") => ~Connected(bits')
        /\ (Connected(bits') /\ ~Connected(bits))
                => Dispatches("ETHERNET_EVENT_CONNECTED")
        /\ (~Connected(bits') /\ Connected(bits))
                => Dispatches("ETHERNET_EVENT_DISCONNECTED")
        /\ GetStateStep => (last'.out.is_connected = Connected(bits))]_vars

\* The link came up a second time with the bit still set from the first,
\* and the state was read while the second event waited.
C15_Witness ==
    /\ Ready
    /\ last.op = "get_eth_state" /\ last.out.is_connected
    /\ Connected(bits)
    /\ evq = <<"ETHERNET_EVENT_CONNECTED">>

\* C16: when the connected bit is clear or the manager is not initialized,
\* eth_manager_get_eth_state returns ESP_OK and the effective
\* configuration (the stored record when it is complete and readable, the
\* compiled defaults otherwise, is_valid = TRUE) with is_connected = FALSE,
\* and makes no call to the interface.
C16_DisconnectedStateIsEffectiveConfig ==
    [][(GetStateStep /\ ~(handle.allocated /\ handle.eth_events
                            /\ Connected(bits)))
        => /\ last'.result = "ESP_OK"
           /\ last'.calls = <<>>
           /\ last'.out.is_valid /\ ~last'.out.is_connected
           /\ IF Complete(store) /\ "open" \notin last'.F
              THEN last'.out = Decoded(store)
              ELSE last'.out = CompiledDefaults]_vars

\* The state was read with the driver running on a stored static record
\* and the link down.
C16_Witness ==
    /\ Ready /\ eth.started /\ ~Connected(bits)
    /\ last.op = "get_eth_state" /\ last.F = {}
    /\ last.out.is_static /\ ~last.out.is_default
    /\ last.out.ip_info # ZeroIp
    /\ last.calls = <<>>

\* The calls of the connected branch and what they say about the record.
LiveStateCommon ==
    /\ last'.out.is_connected
    /\ last'.calls # <<>>
    /\ last'.calls[1][1] = "esp_netif_dhcpc_get_status"
    /\ last'.calls[1][2] = "ESP_OK"
            => (last'.out.is_static = (netif.dhcpc = "STOPPED"))
    /\ last'.result = "ESP_OK"
            => /\ last'.out.is_valid
               /\ \A i \in 1..Len(last'.calls) : last'.calls[i][2] = "ESP_OK"
    /\ \A i \in 1..Len(last'.calls) :
            last'.calls[i][2] # "ESP_OK"
                => /\ last'.result = last'.calls[i][2]
                   /\ ~last'.out.is_valid
                   /\ i = Len(last'.calls)

AddressesQueried(calls) ==
    \E i \in 1..Len(calls) : calls[i][1] = "esp_netif_get_ip_info"

\* C17 as stated: with the connected bit set, eth_manager_get_eth_state
\* returns is_connected = TRUE and is_static = TRUE exactly when the DHCP
\* client is stopped, asks the interface for ip_info and dns_info if and
\* only if that is_static is TRUE, sets is_valid when it returns ESP_OK and
\* returns the error of a failed query with is_valid = FALSE.
C17_LiveQueryOnlyIfStatic ==
    [][(GetStateStep /\ eth_connected(handle, bits))
        => /\ LiveStateCommon
           /\ last'.calls[1][2] = "ESP_OK"
                => (AddressesQueried(last'.calls) <=> last'.out.is_static)]_vars

\* C17, amended: as above, but ip_info and dns_info are asked for whenever
\* the DHCP status was read, whether the client is stopped or not, and the
\* record returned with ESP_OK carries the addresses of the interface.
C17_LiveQueryWhenConnected ==
    [][(GetStateStep /\ eth_connected(handle, bits))
        => /\ LiveStateCommon
           /\ last'.calls[1][2] = "ESP_OK" => AddressesQueried(last'.calls)
           /\ last'.result = "ESP_OK"
                => /\ Len(last'.calls) = 2 + ESP_NETIF_DNS_MAX
                   /\ last'.out.ip_info = netif.ip_info
                   /\ last'.out.dns_info = netif.dns_info]_vars

\* The state was read with the link up and the DHCP client running: the
\* addresses were asked for and is_static is FALSE.
C17_Witness ==
    /\ Ready /\ Connected(bits)
    /\ last.op = "get_eth_state" /\ last.result = "ESP_OK"
    /\ last.out.is_connected /\ ~last.out.is_static /\ last.out.is_valid
    /\ netif.dhcpc = "STARTED"
    /\ Len(last.calls) = 2 + ESP_NETIF_DNS_MAX

\* The last call was eth_manager_set_eth_cfg(c) on a ready manager, with c
\* static, enabled and not the default.
StaticApplied ==
    /\ Ready
    /\ last.op = "set_eth_cfg" /\ NoInjected(last.calls) /\ last.step = "none"
    /\ last.cfg.is_static /\ ~last.cfg.is_disabled /\ ~last.cfg.is_default

\* C18: after eth_manager_init has succeeded and eth_manager_set_eth_cfg(c)
\* has been called with a static, enabled, non-default c and no failing
\* collaborator, eth_manager_get_eth_cfg returns the is_static,
\* is_disabled, ip_info and dns_info of c; and once the connected bit is
\* set, eth_manager_get_eth_state returns ESP_OK with is_connected = TRUE,
\* is_static = TRUE and ip_info = c.ip_info.
C18_StaticEndToEnd ==
    [][StaticApplied =>
        /\ (last'.op = "get_eth_cfg" /\ eth_manager_get_eth_cfg({}))
                => /\ last'.result = "ESP_OK"
                   /\ last'.out.is_static = last.cfg.is_static
                   /\ last'.out.is_disabled = last.cfg.is_disabled
                   /\ last'.out.ip_info = last.cfg.ip_info
                   /\ last'.out.dns_info = last.cfg.dns_info
        /\ (GetStateStep /\ Connected(bits) /\ last'.F = {})
                => /\ last'.result = "ESP_OK"
                   /\ last'.out.is_connected
                   /\ last'.out.is_static
                   /\ last'.out.ip_info = last.cfg.ip_info]_vars

\* The state read with the link up shows the static address that is also
\* the stored one.
C18_Witness ==
    /\ Ready /\ Connected(bits)
    /\ last.op = "get_eth_state" /\ last.result = "ESP_OK"
    /\ last.out.is_connected /\ last.out.is_static
    /\ last.out.ip_info = IpInfoOf(1)
    /\ Complete(store) /\ Decoded(store).ip_info = IpInfoOf(1)
    /\ Decoded(store).is_static

\* C19: eth_manager_set_hostname returns ESP_ERR_INVALID_STATE and makes no
\* call to the interface when the handle is NULL or has no eth_netif;
\* otherwise it makes the one call esp_netif_set_hostname and returns its
\* code, and the interface carries the name when that code is ESP_OK.
C19_HostnameNeedsReady ==
    [][SetHostnameStep =>
        IF ~handle.allocated \/ ~handle.eth_netif
        THEN /\ last'.result = "ESP_ERR_INVALID_STATE"
             /\ last'.calls = <<>>
             /\ netif' = netif
        ELSE /\ Len(last'.calls) = 1
             /\ last'.calls[1][1] = "esp_netif_set_hostname"
             /\ last'.result = last'.calls[1][2]
             /\ IF last'.result = "ESP_OK"
                THEN netif'.hostname \in Hostnames
                ELSE netif' = netif]_vars

\* The name was refused on a handle that has no eth_netif.
C19_Witness ==
    /\ last.op = "set_hostname"
    /\ last.result = "ESP_ERR_INVALID_STATE"
    /\ handle.allocated /\ ~handle.eth_netif
    /\ netif.hostname = 0

(***************************************************************************)
(* Properties of cfgs_are_equal.                                           *)
(***************************************************************************)
\* C20: cfgs_are_equal(a, b) is true exactly when is_disabled and is_static
\* agree and, for static records, address, netmask, gateway and every DNS
\* slot agree; non-static records that differ only in their addresses are
\* equal, static records that differ in DNS slot 0 are not, and is_default,
\* is_valid and is_connected have no influence.
C20_ShallowEquality ==
    last.op = "cfgs_are_equal"
        => LET a == last.cfg
               b == last.out
               eq == last.result = "true"
           IN /\ eq <=> (/\ a.is_disabled = b.is_disabled
                         /\ a.is_static = b.is_static
                         /\ (a.is_static /\ b.is_static)
                               => (/\ a.ip_info.ip = b.ip_info.ip
                                   /\ a.ip_info.netmask = b.ip_info.netmask
                                   /\ a.ip_info.gw = b.ip_info.gw
                                   /\ \A i \in 1..ESP_NETIF_DNS_MAX :
                                            a.dns_info[i] = b.dns_info[i]))
              /\ (~a.is_static /\ ~b.is_static
                    /\ a.is_disabled = b.is_disabled) => eq
              /\ (a.is_static /\ b.is_static
                    /\ a.dns_info[1] # b.dns_info[1]) => ~eq
              /\ \A d \in BOOLEAN, v \in BOOLEAN, k \in BOOLEAN :
                    cfgs_are_equal(
                        [a EXCEPT !.is_default = d, !.is_valid = v,
                                  !.is_connected = k], b) = eq

\* Two non-static records with different addresses and different
\* is_default, is_valid and is_connected were found equal.
C20_Witness ==
    /\ last.op = "cfgs_are_equal" /\ last.result = "true"
    /\ ~last.cfg.is_static /\ ~last.out.is_static
    /\ last.cfg.ip_info # last.out.ip_info
    /\ last.cfg.dns_info[1] # last.out.dns_info[1]
    /\ last.cfg.is_default # last.out.is_default
    /\ last.cfg.is_valid # last.out.is_valid
    /\ last.cfg.is_connected # last.out.is_connected

(***************************************************************************)
(* Properties of eth_event_handler.                                        *)
(***************************************************************************)
EventBits == {"BIT_ETH_START", "BIT_ETH_CONNECTED", "BIT_ETH_GOT_IP"}

\* The step hands the event ev to the callback, which finds its handle.
Handles(ev) ==
    /\ Dispatches(ev)
    /\ handle.allocated /\ handle.eth_events

\* C21: the callback sets BIT_ETH_START on START, clears it on STOP, sets
\* BIT_ETH_CONNECTED on CONNECTED, clears it on DISCONNECTED, and leaves the
\* other bits as they were; an ETH_EVENT with another identifier, and any
\* event of another class, leaves every bit as it was; while the handle
\* stays, the bits change by these four events only; BIT_ETH_GOT_IP is
\* never set.
C21_HandlerFrame ==
    [][/\ Handles("ETHERNET_EVENT_START")
            => bits' = bits \cup {"BIT_ETH_START"}
       /\ Handles("ETHERNET_EVENT_STOP")
            => bits' = bits \ {"BIT_ETH_START"}
       /\ Handles("ETHERNET_EVENT_CONNECTED")
            => bits' = bits \cup {"BIT_ETH_CONNECTED"}
       /\ Handles("ETHERNET_EVENT_DISCONNECTED")
            => bits' = bits \ {"BIT_ETH_CONNECTED"}
       /\ (DeliverEvent /\ Head(evq) \in OtherEvents) => bits' = bits
       /\ (bits' # bits /\ handle' = handle)
            => \E ev \in EthEvents : Handles(ev)
       /\ \A b \in SUBSET EventBits, ev \in EthEvents \cup OtherEvents :
            eth_event_handler(b, "IP_EVENT", ev) = b
       /\ "BIT_ETH_GOT_IP" \notin bits']_vars

\* The STOP event was handled while the link bit was set, and the link bit
\* is still set; an event of the class IP_EVENT waits.
C21_Witness ==
    /\ Ready
    /\ bits = {"BIT_ETH_CONNECTED"}
    /\ ~eth.started
    /\ evq = <<"IP_EVENT_ETH_GOT_IP">>

(***************************************************************************)
(* Properties of the static and the DHCP branch of set_eth_cfg.            *)
(***************************************************************************)
\* The names of the calls of a list, in order.
CallNames(calls) == [i \in 1..Len(calls) |-> calls[i][1]]

\* The calls that set the name servers of dns, one per entry that is not
\* the "any" address, by increasing slot.
DnsPushes(dns) ==
    LET Set(i) == dns[i] # 0
        slots == SelectSeq(<<1, 2, 3>>, Set)
    IN [k \in 1..Len(slots) |-> DnsPoints[slots[k]]]

\* C22: set_eth_cfg of a static configuration that is not disabled calls,
\* in this order, esp_netif_dhcpc_stop, esp_netif_set_ip_info,
\* esp_netif_set_dns_info for each entry that is not the "any" address by
\* increasing slot and for no other entry, then start_eth, whose result it
\* returns; no failure of an earlier call, of the DHCP stop or of a name
\* server, removes a later call.
C22_StaticApplyOrder ==
    [][(SetCfgStep /\ last'.cfg.is_static /\ ~last'.cfg.is_disabled)
        => /\ CallNames(last'.calls)
                = <<"esp_netif_dhcpc_stop", "esp_netif_set_ip_info">>
                    \o DnsPushes(last'.cfg.dns_info)
                    \o (IF "BIT_ETH_START" \in bits THEN <<>>
                        ELSE <<"esp_eth_start">>)
           /\ last'.result
                = IF "BIT_ETH_START" \in bits THEN "ESP_OK"
                  ELSE last'.calls[Len(last'.calls)][2]
           /\ last'.result = "ESP_OK" /\ "BIT_ETH_START" \notin bits
                => eth'.started]_vars

\* The first name server was refused; the third one was set and the driver
\* was started all the same.  The second entry is the "any" address.
C22_Witness ==
    /\ last.op = "set_eth_cfg"
    /\ last.cfg.is_static /\ ~last.cfg.is_disabled
    /\ last.cfg.dns_info[2] = 0
    /\ last.calls = <<<<"esp_netif_dhcpc_stop", "ESP_OK">>,
                      <<"esp_netif_set_ip_info", "ESP_OK">>,
                      <<"set_dns_0", "ESP_FAIL">>,
                      <<"set_dns_2", "ESP_OK">>,
                      <<"esp_eth_start", "ESP_OK">>>>
    /\ netif.dns_info[3] = last.cfg.dns_info[3]
    /\ eth.started

(***************************************************************************)
(* The foreground calls against the events of the driver.                  *)
(***************************************************************************)
\* The configuration the last call applied: the effective one for
\* eth_manager_init, the argument for eth_manager_set_eth_cfg.
LastApplied == IF last.op = "init" THEN Effective(store) ELSE last.cfg

\* The last foreground call returned ESP_OK, on a fully built singleton,
\* and the event loop has nothing left to dispatch.
Quiescent ==
    /\ last.op \in {"init", "set_eth_cfg"}
    /\ last.result = "ESP_OK"
    /\ FullyConstructed(handle) /\ registered
    /\ evq = <<>>

\* C23: when no collaborator fails, once the last eth_manager_init or
\* eth_manager_set_eth_cfg has returned ESP_OK and every event has been
\* dispatched, the driver is started exactly when the configuration that
\* call applied is not disabled, and BIT_ETH_START is set exactly when the
\* driver is started.
C23_DriverFollowsLastConfig ==
    Quiescent
        => /\ eth.started = ~LastApplied.is_disabled
           /\ ("BIT_ETH_START" \in bits) = eth.started

\* C24: whenever eth_event_handler is registered with the event loop, the
\* handle is not NULL and its event group exists; this holds after an
\* eth_manager_init that failed and rolled back, too.
C24_CallbackHasHandle ==
    registered => (handle.allocated /\ handle.eth_events)

(***************************************************************************)
(* The public calls on a manager that is not initialized.                  *)
(***************************************************************************)
\* C25: with the handle NULL, no call of eth_manager_set_eth_cfg,
\* eth_manager_get_eth_cfg, eth_manager_get_eth_state or
\* eth_manager_set_hostname reads through the NULL handle: each one
\* returns, for every configuration it is given.
C25_NullHandleIsChecked ==
    [][(~handle.allocated /\ ~DeliverEvent) => last'.op # "panic"]_vars

\* Every call of the list succeeded, or answered that the interface or the
\* driver is already in the state asked for.
Succeeded(calls) ==
    \A i \in 1..Len(calls) :
        \/ calls[i][2] \in {"ESP_OK", "ESP_ERR_ESP_NETIF_DHCP_ALREADY_STARTED",
                             "ESP_ERR_ESP_NETIF_DHCP_ALREADY_STOPPED"}
        \/ /\ calls[i][1] \in {"esp_eth_start", "esp_eth_stop"}
           /\ calls[i][2] = "ESP_ERR_INVALID_STATE"

\* C26: after set_eth_cfg of a configuration that is not disabled, all of
\* whose calls succeeded or answered "already", the DHCP client is started
\* when the configuration is not static and stopped when it is; for a
\* configuration that is not static no esp_netif_set_ip_info and no
\* esp_netif_set_dns_info call is made, and the addresses of the interface
\* stay as they were.
C26_DhcpFollowsLastConfig ==
    [][(SetCfgStep /\ ~last'.cfg.is_disabled /\ Succeeded(last'.calls))
        => /\ netif'.dhcpc
                = IF last'.cfg.is_static THEN "STOPPED" ELSE "STARTED"
           /\ ~last'.cfg.is_static
                => /\ \A i \in 1..Len(last'.calls) :
                        last'.calls[i][1]
                            \in {"esp_netif_dhcpc_start", "esp_eth_start"}
                   /\ netif'.ip_info = netif.ip_info
                   /\ netif'.dns_info = netif.dns_info]_vars

\* A static configuration was applied, then one with DHCP: the client was
\* started, and the name servers of the static one are still in place.
C26_Witness ==
    /\ last.op = "set_eth_cfg"
    /\ ~last.cfg.is_static /\ ~last.cfg.is_disabled
    /\ last.calls[1] = <<"esp_netif_dhcpc_start", "ESP_OK">>
    /\ Succeeded(last.calls)
    /\ netif.dhcpc = "STARTED"
    /\ netif.dns_info = DnsOf(1)

(***************************************************************************)
(* The queries leave everything as it is.                                  *)
(***************************************************************************)
\* The step is a call of eth_manager_get_eth_cfg that returned.
GetCfgStep ==
    /\ last'.op = "get_eth_cfg"
    /\ ~DeliverEvent /\ ~LinkUp /\ ~LinkDown

\* C27: eth_manager_get_eth_cfg and eth_manager_get_eth_state change
\* neither the store, nor the bits, nor the handle, nor the interface (DHCP
\* mode, addresses, host name), nor the driver, nor the pending events,
\* in whatever state they are called.
C27_QueriesAreReadOnly ==
    [][(GetCfgStep \/ GetStateStep)
        => /\ store' = store
           /\ bits' = bits
           /\ handle' = handle /\ eg_live' = eg_live
           /\ netif' = netif
           /\ eth' = eth
           /\ evq' = evq /\ registered' = registered]_vars

\* The stored configuration was read with a static address applied, the
\* link up and a DISCONNECTED event waiting to be dispatched.
C27_Witness ==
    /\ last.op = "get_eth_cfg"
    /\ Ready
    /\ bits = {"BIT_ETH_START", "BIT_ETH_CONNECTED"}
    /\ evq = <<"ETHERNET_EVENT_DISCONNECTED">>
    /\ Complete(store) /\ last.out = Decoded(store)
    /\ netif.dhcpc = "STOPPED"

(***************************************************************************)
(* The link bit of a stopped interface.                                    *)
(***************************************************************************)
\* C28: after the callback has handled an event, BIT_ETH_CONNECTED is set
\* only if BIT_ETH_START is set; and with the driver stopped and its STOP
\* event dispatched, eth_manager_get_eth_state returns is_connected =
\* FALSE, whether or not a DISCONNECTED event was ever dispatched.
C28_StoppedIsNotConnected ==
    [][/\ (\E ev \in EthEvents : Handles(ev))
            => (Connected(bits') => "BIT_ETH_START" \in bits')
       /\ (GetStateStep /\ Ready /\ ~eth.started /\ evq = <<>>)
            => ~last'.out.is_connected]_vars

\* C29: cfgs_are_equal is an equivalence: cfgs_are_equal(a, a) holds,
\* cfgs_are_equal(a, b) and cfgs_are_equal(b, a) are the same, and
\* cfgs_are_equal(a, b) with cfgs_are_equal(b, c) gives
\* cfgs_are_equal(a, c), for all records a, b, c.
C29_EqualityIsEquivalence ==
    last.op = "cfgs_are_equal"
        => LET a == last.cfg
               b == last.out
               eq == last.result = "true"
           IN /\ cfgs_are_equal(a, a) /\ cfgs_are_equal(b, b)
              /\ cfgs_are_equal(b, a) = eq
              /\ eq => \A c \in CmpCfgs :
                            cfgs_are_equal(b, c) => cfgs_are_equal(a, c)

\* Two static records with the same addresses and different is_default
\* and is_valid were found equal; a third record is equal to both.
C29_Witness ==
    /\ last.op = "cfgs_are_equal" /\ last.result = "true"
    /\ last.cfg.is_static /\ last.cfg.ip_info # ZeroIp
    /\ last.cfg.is_default # last.out.is_default
    /\ last.cfg.is_valid # last.out.is_valid
    /\ \E c \in CmpCfgs :
            /\ c # last.cfg /\ c # last.out
            /\ cfgs_are_equal(last.out, c) /\ cfgs_are_equal(last.cfg, c)

(***************************************************************************)
(* The earlier revision: what the resolution hands to its caller.          *)
(***************************************************************************)
\* The record the resolution has to produce from the store s when the
\* namespace can be opened (`opens`): the stored one when it is complete
\* and readable, the defaults otherwise, with is_valid set.
OldResolved(s, opens) ==
    LET ld == old_get_saved_config(s, IF opens THEN {} ELSE {"open"})
    IN [(IF ld.result = "ESP_OK" THEN ld.cfg ELSE old_set_defaults)
            EXCEPT !.is_valid = TRUE]

\* C30: in the earlier revision netman_get_eth_cfg leaves in its output
\* parameter the stored record, or the defaults, with is_valid = TRUE; and
\* an eth_manager_init that reaches the resolution goes on to set_eth_cfg
\* with that resolved record: its calls and the interface it leaves are
\* those of set_eth_cfg on the resolved record.
C30_ResolutionIsDelivered ==
    /\ last.op = "netman_get_eth_cfg"
        => last.out = OldResolved(store, "open" \notin last.F)
    /\ (last.op = "old_init" /\ last.step \in {"none", "apply", "resolve"})
        => /\ last.step # "resolve"
           /\ \E opens \in BOOLEAN :
                \E ap \in {old_set_eth_cfg(OldResolved(store, opens), TRUE,
                                            NoNetif, {})} :
                    /\ last.calls = ap.calls
                    /\ netif = ap.netif

====
